---- MODULE Spec2Model ----
(***************************************************************************)
(* Other Support (.docx) -> SciENcv XML.                                   *)
(*                                                                         *)
(* The model follows parse_docx and its helpers (parser/from_docx), the    *)
(* Support record (schema) and the date helpers.                           *)
(*                                                                         *)
(* Text model.  A paragraph text is a sequence of tokens.  A token is      *)
(* either a label of FIELD_LABELS (one token per label, the text its       *)
(* regular expression matches), a section keyword, an emphasis character   *)
(* or a word.  Tokens of one text are separated by single spaces, so       *)
(* joining two texts with " " is the concatenation of the sequences and    *)
(* the empty string is the empty sequence.                                 *)
(* Date strings are sequences of characters.                               *)
(***************************************************************************)
EXTENDS Naturals, Sequences, FiniteSets

VARIABLES
    name_parts,       \* parse_docx: dict firstname / middlename / lastname
    parsed_supports,  \* parse_docx: list of finalized Support records
    current_section,  \* parse_docx: "ACTIVE" | "PENDING" | "IN-KIND"
    builder,          \* parse_docx: the builder dict of the record in progress
    builder_active,   \* parse_docx: flag, a record is being accumulated
    last_field_key,   \* parse_docx: raw key of the last label seen, or None
    pc,               \* parse_docx: "next" (at the for statement) | "body" |
                      \*             "returned" | "raised"
    nblocks,          \* number of blocks consumed from the stream
    block,            \* the block consumed by the last loop iteration
    prev,             \* the loop's state before the last iteration
    platform,         \* the C library of the interpreter that runs the program
    call,             \* a call of a helper on its own: function, argument, result
    header_keyword,   \* history: the keyword that matched at the start of the
                      \*          last section header ("ACTIVE" before any header)
    record_keywords   \* history: header_keyword at the title paragraph of each
                      \*          record started so far, in document order

vars == <<name_parts, parsed_supports, current_section, builder, builder_active,
          last_field_key, pc, nblocks, block, prev, platform, call,
          header_keyword, record_keywords>>

history == <<header_keyword, record_keywords>>

(***************************************************************************)
(* Bounds of the model.                                                    *)
(***************************************************************************)
MaxBlocks == 2
MaxParaLen == 2

None == "None_"

Min(a, b) == IF a <= b THEN a ELSE b

(***************************************************************************)
(* FIELD_LABELS                                                            *)
(***************************************************************************)
\* The keys _process_paragraph scans for, in the dict's insertion order.
FIELD_LABELS ==
    << "project_title", "major_goals", "status", "role", "project_number",
       "pd_pi", "source", "place", "dates", "amount", "overlap",
       "person_months_stopper" >>

\* The text each label's pattern matches, as one token.
LabelToken ==
    [ project_title         |-> "Title:",
      major_goals           |-> "Major Goals:",
      status                |-> "Status of Support:",
      role                  |-> "Role:",
      project_number        |-> "Project Number:",
      pd_pi                 |-> "Name of PD/PI:",
      source                |-> "Source of Support:",
      place                 |-> "Place of Performance:",
      dates                 |-> "Project Start and End Date:",
      amount                |-> "Total Award Amount:",
      overlap               |-> "Overlap:",
      person_months_stopper |-> "Person Months" ]

NameLabel == "Name of Individual:"
CommonsLabel == "Commons ID:"
SectionKeywords == {"ACTIVE", "PENDING", "IN-KIND"}
Emphasis == {"*", "_"}

\* Tokens in which the text "Project", "Date" or ":" occurs: the three pieces of
\* the dates pattern Project.*?Date.*?: may lie in different tokens.
HasProject(t) == t \in {LabelToken.dates, LabelToken.project_number, "Project"}
HasDate(t) == t \in {LabelToken.dates, "Date"}
HasColon(t) ==
    \/ t \in {NameLabel, CommonsLabel}
    \/ \E k \in DOMAIN LabelToken : k # "person_months_stopper" /\ t = LabelToken[k]

(***************************************************************************)
(* Strings of characters: parse_date_str and extract_dates                 *)
(***************************************************************************)
Digits == <<"0", "1", "2", "3", "4", "5", "6", "7", "8", "9">>

IsDigit(c) == \E i \in DOMAIN Digits : Digits[i] = c

DigitVal(c) == (CHOOSE i \in DOMAIN Digits : Digits[i] = c) - 1

\* The number a non-empty string of digits denotes.
RECURSIVE NumVal(_)
NumVal(ds) ==
    IF ds = <<>> THEN 0
    ELSE NumVal(SubSeq(ds, 1, Len(ds) - 1)) * 10 + DigitVal(ds[Len(ds)])

\* n in decimal, without padding.
RECURSIVE DecStr(_)
DecStr(n) ==
    IF n < 10 THEN <<Digits[n + 1]>>
    ELSE Append(DecStr(n \div 10), Digits[(n % 10) + 1])

\* n in decimal, zero-padded to two digits (n < 100).
Pad2(n) == <<Digits[(n \div 10) + 1], Digits[(n % 10) + 1]>>

\* n in decimal, zero-padded to four digits (n < 10000).
Pad4(n) == Pad2(n \div 100) \o Pad2(n % 100)

\* str.strip(chars): leading and trailing members of chars removed.
RECURSIVE lstrip(_, _)
lstrip(s, chars) ==
    IF s # <<>> /\ s[1] \in chars THEN lstrip(Tail(s), chars) ELSE s

RECURSIVE rstrip(_, _)
rstrip(s, chars) ==
    IF s # <<>> /\ s[Len(s)] \in chars
    THEN rstrip(SubSeq(s, 1, Len(s) - 1), chars) ELSE s

strip(s, chars) == rstrip(lstrip(s, chars), chars)

\* str.split(sep) for a one-character separator.
RECURSIVE split(_, _)
split(s, sep) ==
    IF \A i \in DOMAIN s : s[i] # sep THEN <<s>>
    ELSE LET i == CHOOSE j \in DOMAIN s :
                      s[j] = sep /\ \A k \in 1..(j - 1) : s[k] # sep
         IN <<SubSeq(s, 1, i - 1)>> \o split(SubSeq(s, i + 1, Len(s)), sep)

DATE_FORMATS ==
    << <<"m", "d", "Y">>, <<"m", "d", "y">>, <<"m", "Y">>, <<"m", "y">> >>

AllDigits(p) == p # <<>> /\ \A i \in DOMAIN p : IsDigit(p[i])

\* What each directive of datetime.strptime accepts: %m 1..12 and %d 1..31 in
\* one or two digits (%d also a space and one digit), %Y four digits, %y two.
DirectiveMatches(d, p) ==
    CASE d = "m" -> AllDigits(p) /\ Len(p) <= 2 /\ NumVal(p) \in 1..12
      [] d = "d" -> \/ AllDigits(p) /\ Len(p) <= 2 /\ NumVal(p) \in 1..31
                    \/ Len(p) = 2 /\ p[1] = " " /\ IsDigit(p[2]) /\ p[2] # "0"
      [] d = "Y" -> AllDigits(p) /\ Len(p) = 4
      [] d = "y" -> AllDigits(p) /\ Len(p) = 2

Year2(n) == IF n < 69 THEN 2000 + n ELSE 1900 + n

DirectiveValue(d, p) ==
    CASE d = "d" /\ p[1] = " " -> DigitVal(p[2])
      [] d = "y" -> Year2(NumVal(p))
      [] OTHER -> NumVal(p)

IsLeap(y) == (y % 4 = 0 /\ y % 100 # 0) \/ y % 400 = 0

DaysInMonth(y, m) ==
    IF m = 2 THEN (IF IsLeap(y) THEN 29 ELSE 28)
    ELSE IF m \in {4, 6, 9, 11} THEN 30 ELSE 31

NoDate == [ok |-> FALSE, year |-> 0, month |-> 0, day |-> 0]

\* datetime(year, month, day): ValueError for a day the month does not have
\* or a year below MINYEAR.
MakeDate(year, month, day) ==
    IF year >= 1 /\ day <= DaysInMonth(year, month)
    THEN [ok |-> TRUE, year |-> year, month |-> month, day |-> day]
    ELSE NoDate

HasDirective(fmt, d) == \E j \in DOMAIN fmt : fmt[j] = d

\* The value parsed for directive d of fmt; a format without %d gives day 1.
FieldValue(parts, fmt, d) ==
    IF HasDirective(fmt, d)
    THEN DirectiveValue(d, parts[CHOOSE j \in DOMAIN fmt : fmt[j] = d])
    ELSE 1

StrptimeParts(parts, fmt) ==
    IF /\ Len(parts) = Len(fmt)
       /\ \A i \in DOMAIN fmt : DirectiveMatches(fmt[i], parts[i])
    THEN MakeDate(FieldValue(parts, fmt, IF HasDirective(fmt, "Y") THEN "Y" ELSE "y"),
                  FieldValue(parts, fmt, "m"),
                  FieldValue(parts, fmt, "d"))
    ELSE NoDate

\* datetime.strptime(date_str, fmt): the date, or ValueError (ok = FALSE).
strptime(date_str, fmt) == StrptimeParts(split(date_str, "/"), fmt)

\* The C library behind datetime.strftime.  "%01" is no conversion
\* specification: glibc copies it to the output, the Windows runtime rejects the
\* format and Python raises ValueError.  glibc's %Y does not pad the year.
Platforms == {"glibc", "msvcrt"}

strftime_Y(year, libc) == IF libc = "glibc" THEN DecStr(year) ELSE Pad4(year)

\* dt.strftime("%Y-%m-%d")
strftime_Ymd(dt, libc) ==
    [ok |-> TRUE,
     str |-> strftime_Y(dt.year, libc) \o <<"-">> \o Pad2(dt.month) \o <<"-">>
             \o Pad2(dt.day)]

\* dt.strftime("%Y-%m-%01")
strftime_Ym01(dt, libc) ==
    IF libc = "glibc"
    THEN [ok |-> TRUE,
          str |-> DecStr(dt.year) \o <<"-">> \o Pad2(dt.month)
                  \o <<"-", "%", "0", "1">>]
    ELSE [ok |-> FALSE, str |-> <<>>]

\* if "d" not in fmt: return dt.strftime("%Y-%m-%01"); return dt.strftime("%Y-%m-%d")
FormatParsed(dt, fmt, libc) ==
    IF ~dt.ok THEN [ok |-> FALSE, str |-> <<>>]
    ELSE IF ~HasDirective(fmt, "d") THEN strftime_Ym01(dt, libc)
    ELSE strftime_Ymd(dt, libc)

\* The loop of parse_date_str from format number i on: the first format whose
\* try block ends without ValueError gives the result.
RECURSIVE parse_date_from(_, _, _)
TryFormat(out, date_str, i, libc) ==
    IF out.ok THEN out.str ELSE parse_date_from(date_str, i + 1, libc)

parse_date_from(date_str, i, libc) ==
    IF i > Len(DATE_FORMATS) THEN <<>>
    ELSE TryFormat(FormatParsed(strptime(date_str, DATE_FORMATS[i]),
                                DATE_FORMATS[i], libc),
                   date_str, i, libc)

parse_date_str(date_str, libc) ==
    IF date_str = <<>> THEN <<>>
    ELSE parse_date_from(strip(date_str, {" ", "*", "_"}), 1, libc)

(***************************************************************************)
(* extract_dates.  A date range "<start> - <end>" that DATE_EXTRACTOR      *)
(* matches is one token of a text; DateRanges gives the characters of its  *)
(* two groups.                                                             *)
(***************************************************************************)
DateRanges ==
    [ r \in {"1/2/2024-3/2025", "13/2024-3/5/25", "1/2/2024-2/30/2025"} |->
        CASE r = "1/2/2024-3/2025" ->
               << <<"1", "/", "2", "/", "2", "0", "2", "4">>,
                  <<"3", "/", "2", "0", "2", "5">> >>
          [] r = "13/2024-3/5/25" ->
               << <<"1", "3", "/", "2", "0", "2", "4">>,
                  <<"3", "/", "5", "/", "2", "5">> >>
          [] r = "1/2/2024-2/30/2025" ->
               << <<"1", "/", "2", "/", "2", "0", "2", "4">>,
                  <<"2", "/", "3", "0", "/", "2", "0", "2", "5">> >> ]

IsDateRange(t) == t \in DOMAIN DateRanges

\* return parse_date_str(match.group(1)), parse_date_str(match.group(2))
dates_of_match(group1, group2, libc) ==
    <<parse_date_str(group1, libc), parse_date_str(group2, libc)>>

GroupsOfMatch(r, libc) == dates_of_match(DateRanges[r][1], DateRanges[r][2], libc)

extract_dates(text, libc) ==
    IF \E i \in DOMAIN text : IsDateRange(text[i])
    THEN GroupsOfMatch(text[CHOOSE j \in DOMAIN text :
                               IsDateRange(text[j])
                               /\ \A k \in 1..(j - 1) : ~IsDateRange(text[k])], libc)
    ELSE << <<>>, <<>> >>

(***************************************************************************)
(* The builder                                                             *)
(***************************************************************************)
DEFAULT_SUPPORT_TEMPLATE ==
    [ projecttitle      |-> <<>>,
      awardnumber       |-> <<>>,
      supportsource     |-> <<>>,
      location          |-> <<>>,
      contributiontype  |-> "award",
      awardamount       |-> <<>>,
      inkinddescription |-> <<>>,
      overallobjectives |-> <<>>,
      potentialoverlap  |-> <<"None">>,
      startdate         |-> <<>>,
      enddate           |-> <<>>,
      supporttype       |-> "current",
      commitment        |-> <<>> ]

_reset_builder(section) ==
    [DEFAULT_SUPPORT_TEMPLATE EXCEPT
        !.commitment = <<>>,
        !.contributiontype = IF section = "IN-KIND" THEN "inkind" ELSE "award",
        !.supporttype = IF section = "PENDING" THEN "pending" ELSE "current"]

\* The builder field a raw key is mapped to by the match statement of
\* _update_field; None for the keys of "case dates" and "case _".
FieldOf(raw_key) ==
    CASE raw_key = "project_title"  -> "projecttitle"
      [] raw_key = "project_number" -> "awardnumber"
      [] raw_key = "source"         -> "supportsource"
      [] raw_key = "place"          -> "location"
      [] raw_key = "amount"         -> "awardamount"
      [] raw_key = "major_goals"    -> "overallobjectives"
      [] raw_key = "overlap"        -> "potentialoverlap"
      [] OTHER                      -> None

\* Variant of set_val that overwrites whatever append says.
set_val_overwrite(b, field_name, text, append) ==
    [b EXCEPT ![field_name] = text]

\* set_val, the closure of _update_field
set_val(b, field_name, text, append) ==
    LET current == b[field_name]
    IN IF append /\ current # <<>>
       THEN [b EXCEPT ![field_name] = current \o text]
       ELSE [b EXCEPT ![field_name] = text]

SetDates(b, se) == [b EXCEPT !.startdate = se[1], !.enddate = se[2]]

\* Variant of UpdateStripped that parses dates from appended text as well.
UpdateStripped_dates_on_append(b, raw_key, field_name, text, append, libc) ==
    IF text = <<>> THEN b
    ELSE IF field_name # None THEN set_val(b, field_name, text, append)
    ELSE IF raw_key = "dates" THEN SetDates(b, extract_dates(text, libc))
    ELSE b

UpdateStripped(b, raw_key, field_name, text, append, libc) ==
    IF text = <<>> THEN b
    ELSE IF field_name # None THEN set_val(b, field_name, text, append)
    ELSE IF raw_key = "dates" /\ ~append THEN SetDates(b, extract_dates(text, libc))
    ELSE b

_update_field(b, raw_key, text, append, libc) ==
    UpdateStripped(b, raw_key, FieldOf(raw_key), strip(text, {" "}), append, libc)

(***************************************************************************)
(* _process_paragraph                                                      *)
(***************************************************************************)
\* Offsets count tokens from 0, as Python counts characters: token i of a text
\* (from 1) lies between the offsets i - 1 and i.
Slice(text, from, to) == SubSeq(text, from + 1, to)

\* pattern.finditer(text) for every label but "dates": a label is one token.
SimpleMatches(text) ==
    { [start |-> i - 1, end |-> i, raw_key |-> FIELD_LABELS[n], ord |-> n] :
        <<i, n>> \in { x \in (DOMAIN text) \X (DOMAIN FIELD_LABELS) :
                         /\ FIELD_LABELS[x[2]] # "dates"
                         /\ text[x[1]] = LabelToken[FIELD_LABELS[x[2]]] } }

\* Project.*?Date.*?: tried at token i: the last token of the match, 0 if none.
\* The match runs from "Project" to the first "Date" after it and on to the
\* first ":" after that, whatever lies between.
DatesMatchEnd(text, i) ==
    IF text[i] = LabelToken.dates THEN i
    ELSE LET J == { j \in (i + 1)..Len(text) : HasDate(text[j]) }
         IN IF J = {} THEN 0
            ELSE LET j == CHOOSE x \in J : \A y \in J : x <= y
                     K == { k \in (j + 1)..Len(text) : HasColon(text[k]) }
                 IN IF text[j] = LabelToken.dates THEN j
                    ELSE IF K = {} THEN 0
                    ELSE CHOOSE x \in K : \A y \in K : x <= y

\* FIELD_LABELS["dates"].finditer(text) from token pos on: leftmost matches,
\* each search resuming where the previous match ended.
RECURSIVE DatesMatches(_, _)
DatesMatches(text, pos) ==
    LET I == { i \in pos..Len(text) : HasProject(text[i]) /\ DatesMatchEnd(text, i) # 0 }
    IN IF I = {} THEN {}
       ELSE LET i == CHOOSE x \in I : \A y \in I : x <= y
                e == DatesMatchEnd(text, i)
            IN { [start |-> i - 1, end |-> e, raw_key |-> "dates", ord |-> 9] }
               \cup DatesMatches(text, e + 1)

\* matches.sort(key=start): the sort is stable, so matches with one start keep
\* the order of FIELD_LABELS.
RECURSIVE SortMatches(_)
SortMatches(M) ==
    IF M = {} THEN <<>>
    ELSE LET m == CHOOSE x \in M : \A y \in M :
                      x.start < y.start \/ (x.start = y.start /\ x.ord <= y.ord)
         IN <<m>> \o SortMatches(M \ {m})

FindMatches(text) == SortMatches(SimpleMatches(text) \cup DatesMatches(text, 1))

\* Variant of ApplyMatches in which a labelled value for the goals or the
\* overlap field is applied with append=True.
RECURSIVE ApplyMatches_additive(_, _, _, _, _)
ApplyMatches_additive(matches, i, text, b, libc) ==
    IF i > Len(matches) THEN b
    ELSE ApplyMatches_additive(matches, i + 1, text,
            _update_field(b, matches[i].raw_key,
                strip(Slice(text, matches[i].end,
                            IF i + 1 <= Len(matches) THEN matches[i + 1].start
                            ELSE Len(text)),
                      {" ", "*", "_"}),
                matches[i].raw_key \in {"major_goals", "overlap"}, libc),
            libc)

\* CASE C: the loop over the matches, from match i on.
RECURSIVE ApplyMatches(_, _, _, _, _)
ApplyMatches(matches, i, text, b, libc) ==
    IF i > Len(matches) THEN b
    ELSE ApplyMatches(matches, i + 1, text,
            _update_field(b, matches[i].raw_key,
                strip(Slice(text, matches[i].end,
                            IF i + 1 <= Len(matches) THEN matches[i + 1].start
                            ELSE Len(text)),
                      {" ", "*", "_"}),
                FALSE, libc),
            libc)

\* CASE B: text before the first label continues the field of the last key.
ApplyPreText(pre_text, start, b, key, libc) ==
    IF start > 0 /\ pre_text # <<>> /\ key # None
    THEN _update_field(b, key, pre_text, TRUE, libc)
    ELSE b

ProcessMatches(matches, text, b, key, libc) ==
    IF matches = <<>>
    THEN [builder |-> IF key # None THEN _update_field(b, key, text, TRUE, libc) ELSE b,
          key |-> key]
    ELSE [builder |->
            ApplyMatches(matches, 1, text,
                ApplyPreText(strip(Slice(text, 0, matches[1].start), {" ", "*", "_"}),
                             matches[1].start, b, key, libc),
                libc),
          key |-> matches[Len(matches)].raw_key]

\* Returns the builder as updated and the key returned.
_process_paragraph(text, b, key, libc) ==
    ProcessMatches(FindMatches(text), text, b, key, libc)

(***************************************************************************)
(* _parse_name.  A name part is a list of words and a word a list of       *)
(* tokens written without a separator: "A B" is <<<<"A">>, <<"B">>>> and   *)
(* "AB" is <<<<"A", "B">>>>; the empty string is <<>>.                     *)
(***************************************************************************)
Words(toks) == [i \in DOMAIN toks |-> <<toks[i]>>]

\* Variant of Glued that joins the tokens with spaces.
Glued_spaced(toks) == [i \in DOMAIN toks |-> <<toks[i]>>]

\* "".join(parts)
Glued(toks) == IF toks = <<>> THEN <<>> ELSE <<toks>>

FirstIndex(text, t) ==
    CHOOSE j \in DOMAIN text : text[j] = t /\ \A k \in 1..(j - 1) : text[k] # t

\* FIELD_LABELS["name_id"].search(text): the label must be followed by at least
\* one character of name.
NameMatches(text) ==
    \E i \in DOMAIN text : text[i] = NameLabel /\ i < Len(text)

\* name_match.group(1): the text after the label, without a trailing
\* "Commons ID: ..." suffix.
NameGroup(text) ==
    LET i == FirstIndex(text, NameLabel)
        C == { c \in (i + 2)..Len(text) : text[c] = CommonsLabel }
        to == IF C = {} THEN Len(text) ELSE (CHOOSE x \in C : \A y \in C : x <= y) - 1
    IN SubSeq(text, i + 1, to)

\* The name_parts after _parse_name(text, np), for a text the pattern matches.
_parse_name(text, np) ==
    LET full_name == strip(NameGroup(text), {" ", "*", "_"})
    IN IF \E i \in DOMAIN full_name : full_name[i] = ","
       THEN LET c == FirstIndex(full_name, ",")
                rest == SubSeq(full_name, c + 1, Len(full_name))
                np1 == [np EXCEPT !.lastname = Words(SubSeq(full_name, 1, c - 1))]
            IN IF rest # <<>>
               THEN [np1 EXCEPT !.firstname = Words(<<rest[1]>>),
                                !.middlename = Words(Tail(rest))]
               ELSE np1
       ELSE LET parts == full_name
            IN IF Len(parts) = 2
               THEN [np EXCEPT !.firstname = Words(<<parts[1]>>),
                               !.lastname = Words(<<parts[2]>>)]
               ELSE IF parts = <<>>
               THEN [firstname |-> <<>>, lastname |-> <<>>, middlename |-> <<>>]
               ELSE [firstname |-> Words(<<parts[1]>>),
                     lastname |-> Words(<<parts[Len(parts)]>>),
                     middlename |-> Glued(SubSeq(parts, 2, Len(parts) - 1))]

(***************************************************************************)
(* _process_table.  A table is a list of rows, a row a list of cells and a *)
(* cell a text.                                                            *)
(***************************************************************************)
\* str.lower() of a token
Lower(t) ==
    CASE t = "Year" -> "year"
      [] t = "Calendar" -> "calendar"
      [] t = "Months" -> "months"
      [] t = "CM" -> "cm"
      [] t = "Month(s)" -> "month(s)"
      [] t = "Support" -> "support"
      [] OTHER -> t

\* Tokens YEAR_EXTRACTOR, \b(20\d{2})\b, matches.
IsYear20(t) == t \in {"2024", "2025"}

ContainsYearOrMonth(t) == Lower(t) \in {"year", "months", "month(s)"}

\* The rows _process_table collects from rows[i..].
RECURSIVE TableRows(_, _)
TableRows(rows, i) ==
    IF i > Len(rows) THEN <<>>
    ELSE LET cells == rows[i]
             Y == IF Len(cells) >= 2
                  THEN { j \in DOMAIN cells[1] : IsYear20(cells[1][j]) } ELSE {}
             year == IF Y = {} THEN <<>>
                     ELSE <<cells[1][CHOOSE x \in Y : \A y \in Y : x <= y]>>
             lowered == [j \in DOMAIN cells[2] |-> Lower(cells[2][j])]
             effort == SelectSeq(lowered, LAMBDA t : t # "calendar")
         IN IF Len(cells) >= 2 /\ year # <<>> /\ effort # <<>>
            THEN <<[year |-> year, effort |-> effort]>> \o TableRows(rows, i + 1)
            ELSE TableRows(rows, i + 1)

_process_table(table, b) ==
    LET header == /\ table # <<>>
                  /\ \E c \in DOMAIN table[1] : \E j \in DOMAIN table[1][c] :
                        ContainsYearOrMonth(table[1][c][j])
        start_row_index == IF header THEN 1 ELSE 0
    IN [b EXCEPT !.commitment = @ \o TableRows(table, start_row_index + 1)]

(***************************************************************************)
(* _finalize_support and Support.__post_init__                             *)
(***************************************************************************)
\* float(effort) succeeds on a text that is one number; the amount in tenths.
FloatTenths ==
    [ t \in {"2.0", "0.6"} |-> IF t = "2.0" THEN 20 ELSE 6 ]

IsFloat(effort) == Len(effort) = 1 /\ effort[1] \in DOMAIN FloatTenths

\* The digits of a token, for re.sub(r"\D", "", raw_amt).
TokenDigits(t) ==
    CASE t = "2024" -> <<"2", "0", "2", "4">>
      [] t = "2025" -> <<"2", "0", "2", "5">>
      [] t = "2.0"  -> <<"2", "0">>
      [] t = "0.6"  -> <<"0", "6">>
      [] t = "1"    -> <<"1">>
      [] t \in DOMAIN DateRanges -> SelectSeq(DateRanges[t][1] \o DateRanges[t][2], IsDigit)
      [] OTHER -> <<>>

RECURSIVE DigitsOnly(_)
DigitsOnly(text) ==
    IF text = <<>> THEN <<>> ELSE TokenDigits(text[1]) \o DigitsOnly(Tail(text))

\* s[:n]
Truncate(s, n) == SubSeq(s, 1, Min(Len(s), n))

\* Support(**kwargs) of parser.schema: the record after __post_init__.
Support(kw) ==
    LET contributiontype == IF kw.contributiontype \notin {"award", "inkind"}
                            THEN "award" ELSE kw.contributiontype
        supporttype == IF kw.supporttype \notin {"current", "pending"}
                       THEN "current" ELSE kw.supporttype
        projecttitle == Truncate(kw.projecttitle, 300)
    IN [ projecttitle      |-> projecttitle,
         awardnumber       |-> Truncate(kw.awardnumber, 50),
         supportsource     |-> Truncate(kw.supportsource, 60),
         location          |-> Truncate(kw.location, 60),
         contributiontype  |-> contributiontype,
         awardamount       |-> Truncate(DigitsOnly(kw.awardamount), 13),
         inkinddescription |->
             IF contributiontype = "inkind"
             THEN IF kw.inkinddescription = <<>> /\ projecttitle # <<>>
                  THEN Truncate(projecttitle, 500)
                  ELSE kw.inkinddescription
             ELSE <<>>,
         overallobjectives |-> kw.overallobjectives,
         potentialoverlap  |-> Truncate(kw.potentialoverlap, 5000),
         startdate         |-> kw.startdate,
         enddate           |-> kw.enddate,
         supporttype       |-> supporttype,
         commitment        |-> kw.commitment ]

\* float() raises ValueError on an effort that is no number.
FinalizeRaises(b) ==
    \E i \in DOMAIN b.commitment : ~IsFloat(b.commitment[i].effort)

\* The ValueError of float() on the first effort that is no number; its
\* message quotes that effort.
FinalizeError(b) ==
    LET i == CHOOSE j \in DOMAIN b.commitment :
                 /\ ~IsFloat(b.commitment[j].effort)
                 /\ \A k \in 1..(j - 1) : IsFloat(b.commitment[k].effort)
    IN [type |-> "ValueError",
        message |-> <<"could not convert string to float:">>
                    \o b.commitment[i].effort]

_finalize_support(b) ==
    Support([b EXCEPT !.commitment =
                [i \in DOMAIN b.commitment |->
                    [year |-> b.commitment[i].year[1],
                     amount |-> FloatTenths[b.commitment[i].effort[1]]]]])

(***************************************************************************)
(* The block stream of iter_block_items                                    *)
(***************************************************************************)
\* The tokens of the paragraphs of a document.  The section is ACTIVE until a
\* header names another one.
DocTokens ==
    { "PENDING", "IN-KIND", NameLabel, LabelToken.project_title, "a" }

RECURSIVE SeqsUpTo(_, _)
SeqsUpTo(S, n) ==
    IF n = 0 THEN {<<>>}
    ELSE LET shorter == SeqsUpTo(S, n - 1)
         IN shorter \cup { Append(q, t) : q \in shorter, t \in S }

Paragraphs == SeqsUpTo(DocTokens, MaxParaLen)

Tables ==
    { << << <<"Year">>, <<"Calendar", "Months">> >>, << <<"2024">>, <<"2.0">> >> >>,
      << << <<"2025">>, <<"2.0", "CM">> >> >> }

NoRows == <<>>

Blocks ==
    { [kind |-> "paragraph", text |-> p, rows |-> NoRows] : p \in Paragraphs }
    \cup { [kind |-> "table", text |-> <<>>, rows |-> t] : t \in Tables }

EndOfStream == [kind |-> "end", text |-> <<>>, rows |-> NoRows]

\* text.strip().translate(TRANSLATION_TABLE).strip(" *_")
Translate(t) == IF t \in {"\\u2013", "\\u2014"} THEN "-" ELSE t

clean_text(text) ==
    strip([i \in DOMAIN strip(text, {" "}) |-> Translate(strip(text, {" "})[i])],
          {" ", "*", "_"})

(***************************************************************************)
(* parse_docx                                                              *)
(***************************************************************************)
State ==
    [ name_parts      |-> name_parts,
      parsed_supports |-> parsed_supports,
      current_section |-> current_section,
      builder         |-> builder,
      builder_active  |-> builder_active,
      last_field_key  |-> last_field_key ]

NoCall == [fn |-> "none", arg |-> <<>>, res |-> <<>>, done |-> FALSE]

\* The state of parse_docx before the first block.
InitParse ==
    /\ name_parts = [firstname |-> <<>>, middlename |-> <<>>, lastname |-> <<>>]
    /\ parsed_supports = <<>>
    /\ current_section = "ACTIVE"
    /\ builder = _reset_builder("ACTIVE")
    /\ builder_active = FALSE
    /\ last_field_key = None
    /\ pc = "next"
    /\ nblocks = 0
    /\ block = EndOfStream
    /\ prev = [ name_parts      |-> [firstname |-> <<>>, middlename |-> <<>>,
                                     lastname |-> <<>>],
                parsed_supports |-> <<>>,
                current_section |-> "ACTIVE",
                builder         |-> _reset_builder("ACTIVE"),
                builder_active  |-> FALSE,
                last_field_key  |-> None ]
    /\ header_keyword = "ACTIVE"
    /\ record_keywords = <<>>

Init ==
    /\ InitParse
    /\ platform = "glibc"
    /\ call = NoCall

\* FIELD_LABELS["section_header"].match(text)
IsSectionHeader(text) == text # <<>> /\ text[1] \in SectionKeywords

\* FIELD_LABELS["project_title"].search(text)
HasProjectTitle(text) == \E i \in DOMAIN text : text[i] = LabelToken.project_title

\* "PENDING" if "PENDING" in header else "IN-KIND" if "IN-KIND" in header else "ACTIVE"
SectionOf(header) ==
    IF \E i \in DOMAIN header : header[i] = "PENDING" THEN "PENDING"
    ELSE IF \E i \in DOMAIN header : header[i] = "IN-KIND" THEN "IN-KIND"
    ELSE "ACTIVE"

\* for block in iter_block_items(doc): the stream yields one more block.
NextBlock ==
    /\ pc = "next"
    /\ nblocks < MaxBlocks
    /\ \E b \in Blocks : block' = b
    /\ nblocks' = nblocks + 1
    /\ prev' = State
    /\ pc' = "body"
    /\ UNCHANGED <<name_parts, parsed_supports, current_section, builder,
                   builder_active, last_field_key, platform, call, history>>

\* The loop body runs on the paragraph just fetched, whose cleaned text is text.
InParagraph(text) == pc = "body" /\ block.kind = "paragraph"

InTable == pc = "body" /\ block.kind = "table"

\* if not text: continue
EmptyParagraph ==
    /\ InParagraph(clean_text(block.text))
    /\ clean_text(block.text) = <<>>
    /\ pc' = "next"
    /\ UNCHANGED <<name_parts, parsed_supports, current_section, builder,
                   builder_active, last_field_key, nblocks, block, prev,
                   platform, call, history>>

\* Variant of NameStep without the continue: the name paragraph goes on to the
\* project detection of step C.
NameStep_falls_through(text) ==
    /\ InParagraph(text)
    /\ text # <<>>
    /\ NameMatches(text)
    /\ name_parts' = _parse_name(text, name_parts)
    /\ pc' = "next"
    /\ IF HasProjectTitle(text)
       THEN /\ builder' = _reset_builder(current_section)
            /\ builder_active' = TRUE
            /\ last_field_key' = None
       ELSE UNCHANGED <<builder, builder_active, last_field_key>>
    /\ UNCHANGED <<parsed_supports, current_section, nblocks, block, prev,
                   platform, call, history>>

\* A. if _parse_name(text, name_parts): continue
NameStep(text) ==
    /\ InParagraph(text)
    /\ text # <<>>
    /\ NameMatches(text)
    /\ name_parts' = _parse_name(text, name_parts)
    /\ pc' = "next"
    /\ UNCHANGED <<parsed_supports, current_section, builder, builder_active,
                   last_field_key, nblocks, block, prev, platform, call, history>>

NameParagraph == NameStep(clean_text(block.text))

\* parsed_supports.append(_finalize_support(builder)), or the ValueError of
\* float() leaves parse_docx.
FinalizeActive(then) ==
    IF builder_active /\ FinalizeRaises(builder)
    THEN /\ pc' = "raised"
         /\ UNCHANGED <<parsed_supports, current_section, builder,
                        builder_active, last_field_key>>
    ELSE /\ parsed_supports' =
              IF builder_active
              THEN Append(parsed_supports, _finalize_support(builder))
              ELSE parsed_supports
         /\ then

\* Variant of HeaderStep that leaves builder_active set after the flush.
HeaderStep_stays_active(text) ==
    /\ InParagraph(text)
    /\ text # <<>>
    /\ ~NameMatches(text)
    /\ IsSectionHeader(text)
    /\ FinalizeActive(/\ current_section' = SectionOf(text)
                      /\ builder' = _reset_builder(SectionOf(text))
                      /\ pc' = "next"
                      /\ UNCHANGED <<builder_active, last_field_key>>)
    /\ header_keyword' = IF pc' = "next" THEN text[1] ELSE header_keyword
    /\ UNCHANGED <<name_parts, nblocks, block, prev, platform, call, record_keywords>>

\* B. Section headers
HeaderStep(text) ==
    /\ InParagraph(text)
    /\ text # <<>>
    /\ ~NameMatches(text)
    /\ IsSectionHeader(text)
    /\ FinalizeActive(/\ current_section' = SectionOf(text)
                      /\ builder' = _reset_builder(SectionOf(text))
                      /\ builder_active' = FALSE
                      /\ pc' = "next"
                      /\ UNCHANGED last_field_key)
    /\ header_keyword' = IF pc' = "next" THEN text[1] ELSE header_keyword
    /\ UNCHANGED <<name_parts, nblocks, block, prev, platform, call, record_keywords>>

SectionHeader == HeaderStep(clean_text(block.text))

\* last_field_key = _process_paragraph(text, builder, last_field_key)
Segmented(r) ==
    /\ builder' = r.builder
    /\ last_field_key' = r.key

\* Variant of ProjectStep that starts the new record without emitting the
\* active one.
ProjectStep_no_flush(text) ==
    /\ InParagraph(text)
    /\ text # <<>>
    /\ ~NameMatches(text)
    /\ ~IsSectionHeader(text)
    /\ HasProjectTitle(text)
    /\ Segmented(_process_paragraph(
                     text, _reset_builder(current_section), None, platform))
    /\ builder_active' = TRUE
    /\ pc' = "next"
    /\ record_keywords' = Append(record_keywords, header_keyword)
    /\ UNCHANGED <<name_parts, parsed_supports, current_section, nblocks, block,
                   prev, platform, call, header_keyword>>

\* Variant of ProjectStep that segments the title paragraph into the builder
\* and under the field key left by the previous record.
ProjectStep_stale(text) ==
    /\ InParagraph(text)
    /\ text # <<>>
    /\ ~NameMatches(text)
    /\ ~IsSectionHeader(text)
    /\ HasProjectTitle(text)
    /\ FinalizeActive(/\ Segmented(_process_paragraph(
                             text, builder, last_field_key, platform))
                      /\ builder_active' = TRUE
                      /\ pc' = "next"
                      /\ UNCHANGED current_section)
    /\ record_keywords' = IF pc' = "next" THEN Append(record_keywords, header_keyword)
                          ELSE record_keywords
    /\ UNCHANGED <<name_parts, nblocks, block, prev, platform, call, header_keyword>>

\* C. New project detection, then D. field extraction on the same paragraph
ProjectStep(text) ==
    /\ InParagraph(text)
    /\ text # <<>>
    /\ ~NameMatches(text)
    /\ ~IsSectionHeader(text)
    /\ HasProjectTitle(text)
    /\ FinalizeActive(/\ Segmented(_process_paragraph(
                             text, _reset_builder(current_section), None, platform))
                      /\ builder_active' = TRUE
                      /\ pc' = "next"
                      /\ UNCHANGED current_section)
    /\ record_keywords' = IF pc' = "next" THEN Append(record_keywords, header_keyword)
                          ELSE record_keywords
    /\ UNCHANGED <<name_parts, nblocks, block, prev, platform, call, header_keyword>>

ProjectParagraph == ProjectStep(clean_text(block.text))

\* D. Field extraction for a paragraph of the active record
FieldStep(text) ==
    /\ InParagraph(text)
    /\ text # <<>>
    /\ ~NameMatches(text)
    /\ ~IsSectionHeader(text)
    /\ ~HasProjectTitle(text)
    /\ builder_active
    /\ Segmented(_process_paragraph(text, builder, last_field_key, platform))
    /\ pc' = "next"
    /\ UNCHANGED <<name_parts, parsed_supports, current_section, builder_active,
                   nblocks, block, prev, platform, call, history>>

FieldParagraph == FieldStep(clean_text(block.text))

\* if not builder_active: continue
NoiseStep(text) ==
    /\ InParagraph(text)
    /\ text # <<>>
    /\ ~NameMatches(text)
    /\ ~IsSectionHeader(text)
    /\ ~HasProjectTitle(text)
    /\ ~builder_active
    /\ pc' = "next"
    /\ UNCHANGED <<name_parts, parsed_supports, current_section, builder,
                   builder_active, last_field_key, nblocks, block, prev,
                   platform, call, history>>

NoiseParagraph == NoiseStep(clean_text(block.text))

\* elif isinstance(block, Table): if builder_active: _process_table(block, builder)
TableBlock ==
    /\ InTable
    /\ builder_active
    /\ builder' = _process_table(block.rows, builder)
    /\ pc' = "next"
    /\ UNCHANGED <<name_parts, parsed_supports, current_section, builder_active,
                   last_field_key, nblocks, block, prev, platform, call, history>>

\* Variant of TableIgnored without the builder_active test.
TableIgnored_processes ==
    /\ InTable
    /\ ~builder_active
    /\ builder' = _process_table(block.rows, builder)
    /\ pc' = "next"
    /\ UNCHANGED <<name_parts, parsed_supports, current_section, builder_active,
                   last_field_key, nblocks, block, prev, platform, call, history>>

\* else: the table stands outside every record and is skipped.
TableIgnored ==
    /\ InTable
    /\ ~builder_active
    /\ pc' = "next"
    /\ UNCHANGED <<name_parts, parsed_supports, current_section, builder,
                   builder_active, last_field_key, nblocks, block, prev,
                   platform, call, history>>

\* Variant of NameRaises in which Name accepts blank names.
NameRaises_never(np) == FALSE

\* Name.__post_init__ raises ValueError without a first or a last name.
NameRaises(np) == np.firstname = <<>> \/ np.lastname = <<>>

\* Variant of FinalFlush that returns the profile without the final flush.
FinalFlush_no_flush ==
    /\ pc = "next"
    /\ block' = EndOfStream
    /\ prev' = State
    /\ pc' = IF NameRaises(name_parts) THEN "raised" ELSE "returned"
    /\ UNCHANGED <<parsed_supports, current_section, builder, builder_active,
                   last_field_key, name_parts, nblocks, platform, call, history>>

\* 4. Final flush once the stream is exhausted, then the profile is built and
\* returned: SciENcvProfile(identification=Identification(name=Name(**name_parts)),
\* employment=[], funding=parsed_supports).
FinalFlush ==
    /\ pc = "next"
    /\ block' = EndOfStream
    /\ prev' = State
    /\ FinalizeActive(/\ pc' = IF NameRaises(name_parts) THEN "raised" ELSE "returned"
                      /\ UNCHANGED <<current_section, builder, builder_active,
                                     last_field_key>>)
    /\ UNCHANGED <<name_parts, nblocks, platform, call, history>>

\* parse_docx has returned a profile; its funding is parsed_supports.
Returned == pc = "returned"

Next ==
    \/ NextBlock
    \/ EmptyParagraph
    \/ NameParagraph
    \/ SectionHeader
    \/ ProjectParagraph
    \/ FieldParagraph
    \/ NoiseParagraph
    \/ TableBlock
    \/ TableIgnored
    \/ FinalFlush

Spec == Init /\ [][Next]_vars

(***************************************************************************)
(* Properties of parse_docx                                                *)
(***************************************************************************)
\* The loop body has just completed on block, entered in state prev.
Processed == pc = "next" /\ nblocks > 0

ProcessedText == clean_text(block.text)

ProcessedName ==
    /\ Processed /\ block.kind = "paragraph"
    /\ ProcessedText # <<>> /\ NameMatches(ProcessedText)

ProcessedHeader ==
    /\ Processed /\ block.kind = "paragraph"
    /\ ProcessedText # <<>> /\ ~NameMatches(ProcessedText)
    /\ IsSectionHeader(ProcessedText)

ProcessedTitle ==
    /\ Processed /\ block.kind = "paragraph"
    /\ ProcessedText # <<>> /\ ~NameMatches(ProcessedText)
    /\ ~IsSectionHeader(ProcessedText) /\ HasProjectTitle(ProcessedText)

ProcessedOther ==
    /\ Processed
    /\ \/ block.kind = "table"
       \/ /\ block.kind = "paragraph"
          /\ ~NameMatches(ProcessedText)
          /\ ~IsSectionHeader(ProcessedText)
          /\ ~HasProjectTitle(ProcessedText)

\* C1: when the stream is exhausted while a record is active, the returned
\* funding is the funding so far followed by exactly that record, finalized;
\* hence every record started by a title paragraph, the last one included, is
\* in the funding of a returned profile.
C1_FinalFlush ==
    Returned =>
        /\ prev.builder_active =>
               /\ Len(parsed_supports) = Len(prev.parsed_supports) + 1
               /\ SubSeq(parsed_supports, 1, Len(prev.parsed_supports))
                      = prev.parsed_supports
               /\ parsed_supports[Len(parsed_supports)]
                      = _finalize_support(prev.builder)
        /\ Len(parsed_supports) = Len(record_keywords)

C1_Witness ==
    /\ Returned
    /\ prev.builder_active
    /\ prev.builder.projecttitle # <<>>
    /\ parsed_supports[Len(parsed_supports)].projecttitle = prev.builder.projecttitle

\* C2: every Support emitted takes its defaults from the keyword that matched
\* at the start of the most recent header before its title paragraph (ACTIVE
\* when there is none): supporttype is "pending" iff that keyword is PENDING,
\* contributiontype is "inkind" iff it is IN-KIND.
C2_SectionDefaults ==
    /\ Len(parsed_supports) <= Len(record_keywords)
    /\ \A i \in DOMAIN parsed_supports :
           /\ (parsed_supports[i].supporttype = "pending")
                  <=> (record_keywords[i] = "PENDING")
           /\ (parsed_supports[i].contributiontype = "inkind")
                  <=> (record_keywords[i] = "IN-KIND")

\* C3: a title paragraph is segmented into a builder freshly reset to the
\* defaults of the current section, with no last active field key: the new
\* record holds nothing of the previous record and takes no continuation
\* text under a label of the previous record.
C3_NewRecordFresh ==
    ProcessedTitle =>
        /\ builder_active
        /\ [builder |-> builder, key |-> last_field_key]
              = _process_paragraph(ProcessedText,
                    _reset_builder(prev.current_section), None, platform)

C3_Witness ==
    /\ ProcessedTitle
    /\ prev.builder_active
    /\ prev.builder.projecttitle # <<>>
    /\ prev.last_field_key = "project_title"
    /\ ProcessedText[1] # LabelToken.project_title
    /\ builder.projecttitle = <<>>

\* C4: a section header processed while a record is active appends exactly
\* that record, finalized, to the funding; processed while no record is
\* active it emits nothing; either way it leaves a fresh builder with the
\* defaults of the new section and no record active, and only a title
\* paragraph makes a record active again.
C4_HeaderFinalizes ==
    /\ ProcessedHeader =>
           /\ parsed_supports =
                  IF prev.builder_active
                  THEN Append(prev.parsed_supports, _finalize_support(prev.builder))
                  ELSE prev.parsed_supports
           /\ builder = _reset_builder(current_section)
           /\ ~builder_active
    /\ (Processed /\ builder_active /\ ~prev.builder_active) => ProcessedTitle

C4_Witness ==
    /\ ProcessedHeader
    /\ prev.builder_active
    /\ prev.builder.projecttitle # <<>>
    /\ Len(parsed_supports) = 1
    /\ current_section # prev.current_section

\* C5: while no record is active, a table and a paragraph that is not a name,
\* a section header or a title paragraph leave the whole parse state as it
\* was.
C5_NoiseIgnored ==
    (ProcessedOther /\ ~prev.builder_active) => State = prev

C5_Witness ==
    /\ ProcessedOther
    /\ ~prev.builder_active
    /\ \/ block.kind = "table"
       \/ ProcessedText # <<>>

\* C6: a paragraph matched by the name label changes the name parts only: no
\* record is started, finalized or emitted, section, builder and last active
\* field key stay, whatever else the paragraph contains.
C6_NameOnly ==
    ProcessedName =>
        /\ name_parts = _parse_name(ProcessedText, prev.name_parts)
        /\ [State EXCEPT !.name_parts = prev.name_parts] = prev

C6_Witness ==
    /\ ProcessedName
    /\ prev.builder_active
    /\ HasProjectTitle(ProcessedText)
    /\ name_parts # prev.name_parts

\* C16: parse_docx returns a profile only if both the first and the last name
\* are non-empty after the whole block stream; otherwise building the profile
\* raises and nothing is returned, whatever records were finalized before.
C16_NameRequired ==
    /\ Returned => name_parts.firstname # <<>> /\ name_parts.lastname # <<>>
    /\ ( /\ block = EndOfStream
         /\ pc # "next"
         /\ name_parts.firstname = <<>> \/ name_parts.lastname = <<>> )
          => pc = "raised"

\* The stream has ended without a name while a record was already finalized.
C16_Witness ==
    /\ block = EndOfStream
    /\ pc = "raised"
    /\ name_parts.firstname = <<>>
    /\ parsed_supports # <<>>

(***************************************************************************)
(* _process_paragraph on its own: one call on a paragraph, a builder and a *)
(* last field key.                                                         *)
(***************************************************************************)
ParaTokens ==
    { LabelToken.project_title, LabelToken.major_goals, LabelToken.overlap,
      LabelToken.role, LabelToken.dates, "1/2/2024-3/2025", "y" }

ParaTexts == SeqsUpTo(ParaTokens, MaxParaLen) \ {<<>>}

\* A builder just reset and a builder whose record has text already.
ParaBuilders ==
    { _reset_builder("ACTIVE"),
      [_reset_builder("PENDING") EXCEPT !.projecttitle = <<"x">>,
                                        !.overallobjectives = <<"x">>] }

ParaKeys == {None, "project_title", "major_goals", "overlap", "dates", "role"}

InitPara ==
    /\ InitParse
    /\ platform \in Platforms
    /\ call \in { [fn |-> "_process_paragraph",
                   arg |-> [text |-> t, builder |-> b, key |-> k],
                   res |-> <<>>, done |-> FALSE] :
                     t \in ParaTexts, b \in ParaBuilders, k \in ParaKeys }

Return(res) ==
    /\ ~call.done
    /\ call' = [call EXCEPT !.res = res, !.done = TRUE]
    /\ UNCHANGED <<name_parts, parsed_supports, current_section, builder,
                   builder_active, last_field_key, pc, nblocks, block, prev,
                   platform, history>>

CallProcessParagraph ==
    /\ call.fn = "_process_paragraph"
    /\ Return(_process_paragraph(call.arg.text, call.arg.builder, call.arg.key,
                                 platform))

NextPara == CallProcessParagraph

SpecPara == InitPara /\ [][NextPara]_vars

(***************************************************************************)
(* Properties of _process_paragraph                                        *)
(***************************************************************************)
ParagraphDone == call.fn = "_process_paragraph" /\ call.done

IsLabel(t) == \E k \in DOMAIN LabelToken : t = LabelToken[k]

KeyOfLabel(t) == CHOOSE k \in DOMAIN LabelToken : t = LabelToken[k]

\* The value of the label at token i: the tokens up to the next label.
ValueAt(text, i) ==
    LET J == { j \in (i + 1)..Len(text) : IsLabel(text[j]) }
    IN SubSeq(text, i + 1,
              IF J = {} THEN Len(text)
              ELSE (CHOOSE x \in J : \A y \in J : x <= y) - 1)

\* Token i is a label of a text field and the last such label of the
\* paragraph that has a value.
LastValued(text, i) ==
    /\ IsLabel(text[i])
    /\ FieldOf(KeyOfLabel(text[i])) # None
    /\ ValueAt(text, i) # <<>>
    /\ \A j \in (i + 1)..Len(text) : text[j] = text[i] => ValueAt(text, j) = <<>>

TextFieldNames ==
    { "projecttitle", "awardnumber", "supportsource", "location", "awardamount",
      "overallobjectives", "potentialoverlap" }

\* C7 as amended: a labelled value with text replaces the content of its
\* field, the goals and the overlap field included; only continuation text
\* is appended.
C7_LabelledValueReplaces ==
    ParagraphDone =>
        \A i \in DOMAIN call.arg.text :
            LastValued(call.arg.text, i) =>
                call.res.builder[FieldOf(KeyOfLabel(call.arg.text[i]))]
                    = ValueAt(call.arg.text, i)

C7_Witness ==
    /\ ParagraphDone
    /\ call.arg.text = <<LabelToken.major_goals, "y">>
    /\ call.arg.builder.overallobjectives = <<"x">>
    /\ call.res.builder.overallobjectives = <<"y">>

\* C7: a labelled value for the goals or the overlap field is appended to the
\* current content of the field, a labelled value for another text field
\* replaces it.  (Stated for a paragraph that starts with the label, so that
\* no continuation text precedes it.)
C7_GoalsOverlapAppend ==
    (ParagraphDone /\ LastValued(call.arg.text, 1)) =>
        LET f == FieldOf(KeyOfLabel(call.arg.text[1]))
        IN call.res.builder[f] =
              IF f \in {"overallobjectives", "potentialoverlap"}
              THEN call.arg.builder[f] \o ValueAt(call.arg.text, 1)
              ELSE ValueAt(call.arg.text, 1)

\* C8 as amended: on a paragraph without a label the key is returned as it
\* came; the text is appended to the field of the key when the key is one of
\* a text field, and the builder is unchanged when the key is none or a key
\* without a text field (dates, status, role, PD/PI, person months).
C8_NoLabelContinuation ==
    (ParagraphDone /\ FindMatches(call.arg.text) = <<>>) =>
        /\ call.res.key = call.arg.key
        /\ call.res.builder =
              IF call.arg.key # None /\ FieldOf(call.arg.key) # None
              THEN [call.arg.builder EXCEPT ![FieldOf(call.arg.key)] =
                                               @ \o call.arg.text]
              ELSE call.arg.builder

C8_Witness ==
    /\ ParagraphDone
    /\ FindMatches(call.arg.text) = <<>>
    /\ call.arg.key = "major_goals"
    /\ call.arg.builder.overallobjectives = <<"x">>
    /\ call.res.builder.overallobjectives = <<"x">> \o call.arg.text

\* C8: on a paragraph without a label the key is returned as it came; with no
\* key the builder is unchanged, with any key the text is appended to one
\* field, that of the key, and no other field changes.
C8_AnyKeyAppends ==
    (ParagraphDone /\ FindMatches(call.arg.text) = <<>>) =>
        /\ call.res.key = call.arg.key
        /\ IF call.arg.key = None
           THEN call.res.builder = call.arg.builder
           ELSE \E f \in TextFieldNames \cup {"startdate", "enddate"} :
                   call.res.builder =
                       [call.arg.builder EXCEPT ![f] = @ \o call.arg.text]

(***************************************************************************)
(* parse_date_str and extract_dates on their own                           *)
(***************************************************************************)
Months == { <<"2">>, <<"0", "3">>, <<"1", "3">> }
Days == { <<"5">>, <<"3", "0">> }
Years == { <<"2", "0", "2", "4">>, <<"6", "8">>, <<"6", "9">> }

DateStrings ==
    { m \o <<"/">> \o d \o <<"/">> \o y : m \in Months, d \in Days, y \in Years }
    \cup { m \o <<"/">> \o y : m \in Months, y \in Years }
    \cup { <<>>, <<"x">>, <<"*", "3", "/", "2", "4", " ">>,
           <<"3", "/", "5", "/", "2", "0", "2", "4", "_">> }

DateTexts ==
    { <<r>> : r \in DOMAIN DateRanges }
    \cup { <<"y", r>> : r \in DOMAIN DateRanges }
    \cup { <<"y">> }

InitDates ==
    /\ InitParse
    /\ platform \in Platforms
    /\ call \in { [fn |-> "parse_date_str", arg |-> d, res |-> <<>>,
                   done |-> FALSE] : d \in DateStrings }
               \cup { [fn |-> "extract_dates", arg |-> t, res |-> <<>>,
                        done |-> FALSE] : t \in DateTexts }

CallParseDateStr ==
    /\ call.fn = "parse_date_str"
    /\ Return(parse_date_str(call.arg, platform))

CallExtractDates ==
    /\ call.fn = "extract_dates"
    /\ Return(extract_dates(call.arg, platform))

NextDates ==
    \/ CallParseDateStr
    \/ CallExtractDates

SpecDates == InitDates /\ [][NextDates]_vars

(***************************************************************************)
(* Properties of parse_date_str and extract_dates                          *)
(***************************************************************************)
\* The date a string denotes in format number i, if it is in that format.
DateIn(date_str, i) == strptime(strip(date_str, {" ", "*", "_"}), DATE_FORMATS[i])

ISODate(dt, day) ==
    Pad4(dt.year) \o <<"-">> \o Pad2(dt.month) \o <<"-">> \o Pad2(day)

\* YYYY-MM-DD for a string in a day-granular format, YYYY-MM-01 for one in a
\* month/year-only format, the empty string for any other.
NormalizedDate(date_str) ==
    IF DateIn(date_str, 1).ok THEN ISODate(DateIn(date_str, 1), DateIn(date_str, 1).day)
    ELSE IF DateIn(date_str, 2).ok
         THEN ISODate(DateIn(date_str, 2), DateIn(date_str, 2).day)
    ELSE IF DateIn(date_str, 3).ok THEN ISODate(DateIn(date_str, 3), 1)
    ELSE IF DateIn(date_str, 4).ok THEN ISODate(DateIn(date_str, 4), 1)
    ELSE <<>>

FirstRange(text) ==
    text[CHOOSE j \in DOMAIN text :
            IsDateRange(text[j]) /\ \A k \in 1..(j - 1) : ~IsDateRange(text[k])]

\* C9: parse_date_str returns YYYY-MM-DD for a string in a day-granular
\* format, YYYY-MM-01 for one in a month/year-only format and the empty
\* string for any other; extract_dates returns the two sides of the range so
\* normalized, each on its own.
C9_DateNormalization ==
    /\ (call.fn = "parse_date_str" /\ call.done) =>
           call.res = NormalizedDate(call.arg)
    /\ (call.fn = "extract_dates" /\ call.done) =>
           call.res =
              IF \E i \in DOMAIN call.arg : IsDateRange(call.arg[i])
              THEN << NormalizedDate(DateRanges[FirstRange(call.arg)][1]),
                      NormalizedDate(DateRanges[FirstRange(call.arg)][2]) >>
              ELSE << <<>>, <<>> >>

\* A month/year-only string has been parsed, and the result is not a date.
C9_Witness ==
    /\ call.fn = "parse_date_str"
    /\ call.done
    /\ call.arg = <<"0", "3", "/", "2", "0", "2", "4">>
    /\ call.res # <<"2", "0", "2", "4", "-", "0", "3", "-", "0", "1">>

(***************************************************************************)
(* Support.__post_init__ of src/schema/dataclasses.py.  A string is its    *)
(* length; the award number is its length and the number of spaces in it,  *)
(* the award amount the numbers of its digits and of its other characters. *)
(***************************************************************************)
MaxExcess == 1

ProjectTitleMax == 300
LocationMax == 60
SupportSourceMax == 60
PotentialOverlapMax == 5000
AwardNumberMax == 50
AwardAmountMax == 13
InkindDescriptionMax == 500

\* len("N/A")
LenNA == 3

\* s[:n]
Sliced(len, n) == Min(len, n)

\* self.awardnumber.replace(" ", ""), then (clean_award_num or "N/A")[:50]
_clean_award_number(s) ==
    [s EXCEPT !.awardnumber =
        [len |-> Sliced(IF @.len - @.spaces = 0 THEN LenNA ELSE @.len - @.spaces,
                        AwardNumberMax),
         spaces |-> 0]]

\* re.sub(r"\D", "", raw_amt)[:13]
_clean_amount(s) ==
    [s EXCEPT !.awardamount =
        [digits |-> Sliced(@.digits, AwardAmountMax), others |-> 0]]

_clean_enums(s) ==
    [s EXCEPT
        !.contributiontype = IF @ \notin {"award", "inkind"} THEN "award" ELSE @,
        !.supporttype = IF @ \notin {"current", "pending"} THEN "current" ELSE @]

\* Variant of _clean_inkind without the else branch: an award keeps the
\* description it was given.
_clean_inkind_no_else(s) ==
    IF s.contributiontype = "inkind" /\ s.inkinddescription = 0 /\ s.projecttitle # 0
    THEN [s EXCEPT !.inkinddescription =
                       Sliced(s.projecttitle, InkindDescriptionMax)]
    ELSE s

\* The slice to 500 characters stands under "if not ik_desc and
\* self.projecttitle": a description that was given is left as it is.
_clean_inkind(s) ==
    IF s.contributiontype = "inkind"
    THEN IF s.inkinddescription = 0 /\ s.projecttitle # 0
         THEN [s EXCEPT !.inkinddescription =
                            Sliced(s.projecttitle, InkindDescriptionMax)]
         ELSE s
    ELSE [s EXCEPT !.inkinddescription = 0]

Support__post_init__(s) ==
    _clean_inkind(_clean_enums(_clean_amount(_clean_award_number(
        [s EXCEPT !.projecttitle = Sliced(@, ProjectTitleMax),
                  !.location = Sliced(@, LocationMax),
                  !.supportsource = Sliced(@, SupportSourceMax),
                  !.potentialoverlap = Sliced(@, PotentialOverlapMax)]))))

\* The lengths tried for a field of maximum n: empty, full, and over.
Lengths(n) == {0} \cup (n..(n + MaxExcess))

SupportInputs ==
    [ projecttitle      : Lengths(ProjectTitleMax),
      location          : Lengths(LocationMax),
      supportsource     : {SupportSourceMax + MaxExcess},
      potentialoverlap  : {PotentialOverlapMax + MaxExcess},
      awardnumber       : { [len |-> n + k, spaces |-> k] :
                              n \in Lengths(AwardNumberMax), k \in 0..1 },
      awardamount       : [digits : Lengths(AwardAmountMax), others : 0..1],
      inkinddescription : Lengths(InkindDescriptionMax),
      contributiontype  : {"award", "inkind", "grant"},
      supporttype       : {"current", "other"} ]

InitSupport ==
    /\ InitParse
    /\ platform = "glibc"
    /\ call \in { [fn |-> "Support", arg |-> a, res |-> <<>>, done |-> FALSE] :
                     a \in SupportInputs }

CallSupport ==
    /\ call.fn = "Support"
    /\ Return(Support__post_init__(call.arg))

NextSupport == CallSupport

SpecSupport == InitSupport /\ [][NextSupport]_vars

(***************************************************************************)
(* Properties of Support                                                   *)
(***************************************************************************)
\* C10: every bounded string field of a constructed Support is within its
\* maximum, whatever the lengths of the inputs.
C10_FieldMaxima ==
    (call.fn = "Support" /\ call.done) =>
        /\ call.res.projecttitle <= ProjectTitleMax
        /\ call.res.awardnumber.len <= AwardNumberMax
        /\ call.res.location <= LocationMax
        /\ call.res.supportsource <= SupportSourceMax
        /\ call.res.potentialoverlap <= PotentialOverlapMax
        /\ call.res.inkinddescription <= InkindDescriptionMax
        /\ call.res.awardamount.digits + call.res.awardamount.others
              <= AwardAmountMax

\* An in-kind Support was given a description over the maximum and keeps it.
C10_Witness ==
    /\ call.fn = "Support"
    /\ call.done
    /\ call.arg.contributiontype = "inkind"
    /\ call.arg.inkinddescription > InkindDescriptionMax
    /\ call.res.inkinddescription = call.arg.inkinddescription

MaxNameLen == 4

NameTokens == { "Doe", ",", "Jane", "Q" }

NameTexts == { <<NameLabel>> \o n : n \in SeqsUpTo(NameTokens, MaxNameLen) }

\* The name parts before any name paragraph, and those of an earlier one.
NameContexts ==
    { [firstname |-> <<>>, middlename |-> <<>>, lastname |-> <<>>],
      [firstname |-> <<<<"Old">>>>, middlename |-> <<<<"M">>>>,
       lastname |-> <<<<"Name">>>>] }

InitName ==
    /\ InitParse
    /\ platform = "glibc"
    /\ call \in { [fn |-> "_parse_name", arg |-> [text |-> t, name_parts |-> np],
                   res |-> <<>>, done |-> FALSE] :
                     t \in NameTexts, np \in NameContexts }

\* The result is the pair of the value returned and the name parts as left.
CallParseName ==
    /\ call.fn = "_parse_name"
    /\ Return(IF NameMatches(call.arg.text)
              THEN [found |-> TRUE,
                    name_parts |-> _parse_name(call.arg.text, call.arg.name_parts)]
              ELSE [found |-> FALSE, name_parts |-> call.arg.name_parts])

NextName == CallParseName

SpecName == InitName /\ [][NextName]_vars

(***************************************************************************)
(* Properties of _parse_name                                               *)
(***************************************************************************)
NameDone == call.fn = "_parse_name" /\ call.done /\ call.res.found

\* The tokens of the captured name.
CapturedName == Tail(call.arg.text)

HasComma(n) == \E i \in DOMAIN n : n[i] = ","

BeforeComma(n) ==
    SubSeq(n, 1, (CHOOSE i \in DOMAIN n :
                     n[i] = "," /\ \A k \in 1..(i - 1) : n[k] # ",") - 1)

AfterComma(n) == SubSeq(n, Len(BeforeComma(n)) + 2, Len(n))

\* The words of a text that is written with single spaces.
Spaced(toks) == [i \in DOMAIN toks |-> <<toks[i]>>]

MaxRows == 2

HeaderRow == << <<"Year">>, <<"Calendar", "Month(s)">> >>

TableRowSet ==
    { HeaderRow,
      << <<"2024">>, <<"2.0", "CM">> >>,
      << <<"2025">>, <<"2.0">> >>,
      << <<"Year", "1">>, <<"0.6">> >>,
      << <<"2024">>, <<"Calendar">> >>,
      << <<"2024">> >> }

TableInputs == SeqsUpTo(TableRowSet, MaxRows)

\* The builder of a record with a title, without and with an earlier pair.
TableBuilders ==
    { [_reset_builder("ACTIVE") EXCEPT !.projecttitle = <<"T">>],
      [_reset_builder("ACTIVE") EXCEPT
          !.projecttitle = <<"T">>,
          !.commitment = <<[year |-> <<"2024">>, effort |-> <<"0.6">>]>>] }

InitTable ==
    /\ InitParse
    /\ platform = "glibc"
    /\ call \in { [fn |-> "_process_table", arg |-> [table |-> t, builder |-> b],
                   res |-> <<>>, done |-> FALSE] :
                     t \in TableInputs, b \in TableBuilders }

CallProcessTable ==
    /\ call.fn = "_process_table"
    /\ Return(_process_table(call.arg.table, call.arg.builder))

\* _finalize_support(builder) on the builder the table was extracted into: a
\* Support, or the exception that leaves the function.
CallFinalizeSupport ==
    /\ call.fn = "_process_table"
    /\ call.done
    /\ call' = [fn |-> "_finalize_support",
                arg |-> [table |-> call.arg.table, builder |-> call.res,
                         before |-> call.arg.builder],
                res |-> IF FinalizeRaises(call.res)
                        THEN [raised |-> TRUE, error |-> FinalizeError(call.res)]
                        ELSE [raised |-> FALSE,
                              support |-> _finalize_support(call.res)],
                done |-> TRUE]
    /\ UNCHANGED <<name_parts, parsed_supports, current_section, builder,
                   builder_active, last_field_key, pc, nblocks, block, prev,
                   platform, history>>

NextTable ==
    \/ CallProcessTable
    \/ CallFinalizeSupport

SpecTable == InitTable /\ [][NextTable]_vars

(***************************************************************************)
(* Properties of _process_table and _finalize_support                      *)
(***************************************************************************)
TableDone == call.fn = "_process_table" /\ call.done

FinalizeDone == call.fn = "_finalize_support" /\ call.done

\* The first row is a header: its cells contain "year" or "month".
FirstRowIsHeader(table) ==
    /\ table # <<>>
    /\ \E c \in DOMAIN table[1] : \E j \in DOMAIN table[1][c] :
          ContainsYearOrMonth(table[1][c][j])

\* Cell 1 lowercased, "calendar" removed, trimmed.
CleanedEffort(cell) ==
    SelectSeq([j \in DOMAIN cell |-> Lower(cell[j])], LAMBDA t : t # "calendar")

\* The pairs the rows from row i on contribute when the year is cell 0 with
\* every non-digit character stripped; a year is written as its digits.
RECURSIVE DigitYearPairs(_, _)
DigitYearPairs(rows, i) ==
    IF i > Len(rows) THEN <<>>
    ELSE IF /\ Len(rows[i]) >= 2
            /\ DigitsOnly(rows[i][1]) # <<>>
            /\ CleanedEffort(rows[i][2]) # <<>>
         THEN <<[year |-> DigitsOnly(rows[i][1]),
                 effort |-> CleanedEffort(rows[i][2])]>>
              \o DigitYearPairs(rows, i + 1)
         ELSE DigitYearPairs(rows, i + 1)

\* The pairs a call appended to the commitment list, years as their digits.
AppendedPairs ==
    LET old == Len(call.arg.builder.commitment)
        new == call.res.commitment
    IN [k \in 1..(Len(new) - old) |->
           [year |-> DigitsOnly(new[old + k].year), effort |-> new[old + k].effort]]

\* C13: the first row is skipped iff it contains "year" or "month"; every
\* other row with at least two cells gives year = cell 0 without its
\* non-digit characters and effort = cell 1 lowercased without "calendar",
\* and contributes the pair iff both are non-empty.
C13_TableExtraction ==
    TableDone =>
        /\ Len(call.res.commitment) >= Len(call.arg.builder.commitment)
        /\ AppendedPairs =
              DigitYearPairs(call.arg.table,
                             IF FirstRowIsHeader(call.arg.table) THEN 2 ELSE 1)

\* A row "Year 1" that is not the first row has been processed without a pair.
C13_Witness ==
    /\ TableDone
    /\ call.arg.table = << << <<"2025">>, <<"2.0">> >>, << <<"Year", "1">>, <<"0.6">> >> >>
    /\ call.arg.builder.commitment = <<>>
    /\ Len(call.res.commitment) = 1

\* C14: the table with the header row ["Year", "Calendar Month(s)"] and the
\* row ["2024", "2.0 CM"], extracted into a record without commitments and
\* finalized, gives a Support whose commitment list is exactly
\* PersonMonth(year="2024", amount=2.0).
C14_TableToPersonMonth ==
    ( /\ FinalizeDone
      /\ call.arg.table = <<HeaderRow, << <<"2024">>, <<"2.0", "CM">> >> >>
      /\ call.arg.before.commitment = <<>> ) =>
        /\ ~call.res.raised
        /\ call.res.support.commitment = <<[year |-> "2024", amount |-> 20]>>

\* That table has been extracted and the finalization has raised.
C14_Witness ==
    /\ FinalizeDone
    /\ call.arg.table = <<HeaderRow, << <<"2024">>, <<"2.0", "CM">> >> >>
    /\ call.arg.before.commitment = <<>>
    /\ call.arg.builder.commitment = <<[year |-> <<"2024">>, effort |-> <<"2.0", "cm">>]>>
    /\ call.res.raised

\* The tokens sub occur in msg, in this order and next to each other.
Mentions(msg, sub) ==
    \E i \in 0..(Len(msg) - Len(sub)) : SubSeq(msg, i + 1, i + Len(sub)) = sub

\* C15: _finalize_support fails iff some raw effort is no number, and then
\* with a DocxParsingError whose message holds the project title and the
\* offending raw effort; no Support is produced.
C15_FinalizeErrorContext ==
    FinalizeDone =>
        /\ call.res.raised
              <=> \E i \in DOMAIN call.arg.builder.commitment :
                     ~IsFloat(call.arg.builder.commitment[i].effort)
        /\ call.res.raised =>
              /\ call.res.error.type = "DocxParsingError"
              /\ Mentions(call.res.error.message, call.arg.builder.projecttitle)
              /\ \E i \in DOMAIN call.arg.builder.commitment :
                     /\ ~IsFloat(call.arg.builder.commitment[i].effort)
                     /\ Mentions(call.res.error.message,
                                 call.arg.builder.commitment[i].effort)

\* A finalization has failed on the effort "2.0 cm" with a ValueError.
C15_Witness ==
    /\ FinalizeDone
    /\ call.res.raised
    /\ call.res.error.type = "ValueError"
    /\ Mentions(call.res.error.message, <<"2.0", "cm">>)
    /\ ~Mentions(call.res.error.message, call.arg.builder.projecttitle)

(***************************************************************************)
(* to_xml on its own: one call on a tree of slotted records.  A value is   *)
(* None, a string, a record with slots, a list, an object with a custom    *)
(* to_xml method, an object whose __str__ raises, or a slot never set.  The *)
(* result is the sequence of chunks the generator yields and the exception *)
(* that ends it, if any.                                                   *)
(***************************************************************************)
MaxItems == 2

NoneValue == [k |-> "none"]

Str(text) == [k |-> "str", s |-> text]

\* A slot that was never assigned: getattr raises AttributeError.
UnsetSlot == [k |-> "unset"]

\* An object whose __str__ raises RuntimeError.
BadValue == [k |-> "bad"]

\* An object with a to_xml method, which returns xml or raises KeyError.
Custom(xml, fails) == [k |-> "custom", xml |-> xml, fails |-> fails]

\* PersonMonth(year="2024", amount=2.0)
PersonMonth2024 == Custom(<<"personmonth", "2024", "2.0">>, FALSE)

Record(cls, slots, val) == [k |-> "rec", cls |-> cls, slots |-> slots, val |-> val]

List(items) == [k |-> "list", items |-> items]

\* The local variable value before its first assignment.
Unbound == [k |-> "unbound"]

Raised(type) ==
    [type |-> type, tag |-> "", owner |-> "", value |-> Unbound, cause |-> ""]

NoError == Raised("none")

\* XMLGenerationError(f"Failed to generate XML for tag '{tag}' in
\* {type(slotted_dc).__name__}. Value: {value!r}. Error: {e}") from e
XMLGenerationError(tag, dc, value, e) ==
    [type |-> "XMLGenerationError", tag |-> tag, owner |-> dc.cls,
     value |-> value, cause |-> e.type]

\* The subclasses of RenderEmptyMixin.
RenderEmptyClasses == {"SciENcvProfile", "Support"}

\* Variant of render_all in which every record renders its empty fields.
render_all_always(dc) == TRUE

\* render_all = isinstance(slotted_dc, RenderEmptyMixin)
render_all(dc) == dc.cls \in RenderEmptyClasses

\* is_empty = value is None or (isinstance(value, str) and value == "")
is_empty(value) == value = NoneValue \/ value = Str("")

\* html.escape(str(value))
Escape(text) == IF text = "R&D" THEN "R&amp;D" ELSE text

\* root_tag.removeprefix("<").removesuffix(">")
CleanTag(root_tag) == IF root_tag = "<profile>" THEN "profile" ELSE root_tag

RECURSIVE to_xml(_, _)

\* Variant of RenderChildren that recurses into a record item without the
\* element named after its class.
RECURSIVE RenderChildren_unwrapped(_, _)
RenderChildren_unwrapped(items, i) ==
    IF i > Len(items) THEN [out |-> <<>>, err |-> NoError]
    ELSE LET child == items[i]
             this ==
               IF child.k = "custom"
               THEN IF child.fails THEN [out |-> <<>>, err |-> Raised("KeyError")]
                    ELSE [out |-> <<child.xml>>, err |-> NoError]
               ELSE IF child.k = "rec" THEN to_xml(child, None)
               ELSE [out |-> <<>>, err |-> NoError]
         IN IF this.err # NoError THEN this
            ELSE LET rest == RenderChildren_unwrapped(items, i + 1)
                 IN [out |-> this.out \o rest.out, err |-> rest.err]

\* for child in value: the custom to_xml of the child, or the child's
\* rendering inside an element named after its lower-cased class; a child
\* with neither to_xml nor __slots__ yields nothing.
RECURSIVE RenderChildren(_, _)
RenderChildren(items, i) ==
    IF i > Len(items) THEN [out |-> <<>>, err |-> NoError]
    ELSE LET child == items[i]
             this ==
               IF child.k = "custom"
               THEN IF child.fails THEN [out |-> <<>>, err |-> Raised("KeyError")]
                    ELSE [out |-> <<child.xml>>, err |-> NoError]
               ELSE IF child.k = "rec"
               THEN LET r == to_xml(child, None)
                    IN [out |-> << <<"open", Lower(child.cls)>> >> \o r.out \o
                                IF r.err = NoError
                                THEN << <<"close", Lower(child.cls)>> >> ELSE <<>>,
                        err |-> r.err]
               ELSE [out |-> <<>>, err |-> NoError]
         IN IF this.err # NoError THEN this
            ELSE LET rest == RenderChildren(items, i + 1)
                 IN [out |-> this.out \o rest.out, err |-> rest.err]

\* The body of the try statement for one tag, from the value read.
RenderValue(tag, value, render) ==
    IF is_empty(value)
    THEN [out |-> IF render THEN << <<"empty", tag>> >> ELSE <<>>, err |-> NoError]
    ELSE IF value.k = "custom"
    THEN IF value.fails THEN [out |-> <<>>, err |-> Raised("KeyError")]
         ELSE [out |-> <<value.xml>>, err |-> NoError]
    ELSE IF value.k = "rec"
    THEN LET r == to_xml(value, None)
         IN [out |-> << <<"open", tag>> >> \o r.out \o
                     IF r.err = NoError THEN << <<"close", tag>> >> ELSE <<>>,
             err |-> r.err]
    ELSE IF value.k = "list"
    THEN LET r == RenderChildren(value.items, 1)
         IN [out |-> << <<"open", tag>> >> \o r.out \o
                     IF r.err = NoError THEN << <<"close", tag>> >> ELSE <<>>,
             err |-> r.err]
    ELSE IF value.k = "bad"
    THEN [out |-> <<>>, err |-> Raised("RuntimeError")]
    ELSE [out |-> << <<"text", tag, Escape(value.s)>> >>, err |-> NoError]

\* except Exception as e: an XMLGenerationError is raised again as it is;
\* anything else is wrapped, with the local variable value as it stands.
ExceptHandler(tag, dc, value, e) ==
    IF e.type = "XMLGenerationError" THEN e
    ELSE IF value = Unbound THEN Raised("UnboundLocalError")
    ELSE XMLGenerationError(tag, dc, value, e)

\* for tag in slotted_dc.__slots__, from the i-th slot on; value is the local
\* variable as the earlier iterations left it.
RECURSIVE RenderSlots(_, _, _)
RenderSlots(dc, i, value) ==
    IF i > Len(dc.slots) THEN [out |-> <<>>, err |-> NoError]
    ELSE IF dc.val[i] = UnsetSlot
    THEN [out |-> <<>>,
          err |-> ExceptHandler(dc.slots[i], dc, value, Raised("AttributeError"))]
    ELSE LET this == RenderValue(dc.slots[i], dc.val[i], render_all(dc))
         IN IF this.err # NoError
            THEN [out |-> this.out,
                  err |-> ExceptHandler(dc.slots[i], dc, dc.val[i], this.err)]
            ELSE LET rest == RenderSlots(dc, i + 1, dc.val[i])
                 IN [out |-> this.out \o rest.out, err |-> rest.err]

to_xml(slotted_dc, root_tag) ==
    LET head == IF root_tag # None THEN << <<"open", CleanTag(root_tag)>> >> ELSE <<>>
    IN IF slotted_dc.k # "rec"
       THEN [out |-> head, err |-> Raised("AttributeError")]
       ELSE LET r == RenderSlots(slotted_dc, 1, Unbound)
            IN [out |-> head \o r.out \o
                        IF r.err = NoError /\ root_tag # None
                        THEN << <<"close", CleanTag(root_tag)>> >> ELSE <<>>,
                err |-> r.err]

XmlLeaves ==
    { NoneValue, Str(""), Str("x"), Str("R&D"), BadValue, UnsetSlot,
      PersonMonth2024, Custom(<<>>, TRUE) }

XmlInner ==
    { Record(cls, <<"c">>, <<v>>) :
        cls \in {"Year", "Support"}, v \in {NoneValue, Str("x"), BadValue} }

XmlLists ==
    { List(q) : q \in SeqsUpTo({PersonMonth2024, Record("Year", <<"c">>, <<Str("x")>>),
                                 Record("Support", <<"c">>, <<NoneValue>>)}, MaxItems) }

XmlValues == XmlLeaves \cup XmlInner \cup XmlLists

XmlInputs ==
    { [dc |-> Record(cls, <<"a", "b">>, <<v, w>>), root_tag |-> rt] :
        cls \in {"SciENcvProfile", "Position"}, v \in XmlValues, w \in XmlValues,
        rt \in {None, "<profile>"} }

InitXml ==
    /\ InitParse
    /\ platform = "glibc"
    /\ call \in { [fn |-> "to_xml", arg |-> a, res |-> <<>>, done |-> FALSE] :
                     a \in XmlInputs }

\* "".join(to_xml(slotted_dc, root_tag))
CallToXml ==
    /\ call.fn = "to_xml"
    /\ Return(to_xml(call.arg.dc, call.arg.root_tag))

NextXml == CallToXml

SpecXml == InitXml /\ [][NextXml]_vars

(***************************************************************************)
(* Properties of to_xml                                                    *)
(***************************************************************************)
XmlDone == call.fn = "to_xml" /\ call.done

Count(q, x) == Cardinality({ i \in DOMAIN q : q[i] = x })

RECURSIVE SumSeq(_)
SumSeq(q) == IF q = <<>> THEN 0 ELSE Head(q) + SumSeq(Tail(q))

\* The number of fields named tag in the tree under v that are None or ""
\* and belong to a record of a render-empty class.
RECURSIVE EmptyOwned(_, _)
EmptyOwned(v, tag) ==
    IF v.k = "rec"
    THEN SumSeq([i \in DOMAIN v.val |->
                   IF is_empty(v.val[i])
                   THEN IF v.slots[i] = tag /\ v.cls \in RenderEmptyClasses
                        THEN 1 ELSE 0
                   ELSE EmptyOwned(v.val[i], tag)])
    ELSE IF v.k = "list"
    THEN SumSeq([i \in DOMAIN v.items |-> EmptyOwned(v.items[i], tag)])
    ELSE 0

\* The chunks of q that are elements of the field tag.
ChunksOf(q, tag) ==
    { i \in DOMAIN q : q[i][1] \in {"open", "close", "empty", "text"} /\ q[i][2] = tag }

\* C17: a field that is None or "" gives exactly one self-closing element
\* when the record owning it is of a render-empty class, and nothing
\* otherwise; the class of the owning record decides, not that of its parent.
C17_EmptyFieldPolicy ==
    (XmlDone /\ call.res.err = NoError) =>
        /\ \A tag \in {"a", "b", "c"} :
              Count(call.res.out, <<"empty", tag>>) = EmptyOwned(call.arg.dc, tag)
        /\ \A i \in DOMAIN call.arg.dc.val :
              is_empty(call.arg.dc.val[i]) =>
                Cardinality(ChunksOf(call.res.out, call.arg.dc.slots[i])) =
                  IF call.arg.dc.cls \in RenderEmptyClasses THEN 1 ELSE 0

\* A skip-empty record with an empty field of its own holds a render-empty
\* record with an empty field: only the inner one is rendered.
C17_Witness ==
    /\ XmlDone
    /\ call.arg.dc.cls = "Position"
    /\ call.arg.dc.val = <<Record("Support", <<"c">>, <<NoneValue>>), Str("")>>
    /\ Count(call.res.out, <<"empty", "c">>) = 1
    /\ Count(call.res.out, <<"empty", "b">>) = 0

\* The items in list order: the custom rendering of an item, or its
\* rendering inside an element named after its lower-cased class.
RECURSIVE ItemsXml(_)
ItemsXml(items) ==
    IF items = <<>> THEN <<>>
    ELSE ( IF Head(items).k = "custom" THEN <<Head(items).xml>>
           ELSE << <<"open", Lower(Head(items).cls)>> >>
                \o to_xml(Head(items), None).out
                \o << <<"close", Lower(Head(items).cls)>> >> )
         \o ItemsXml(Tail(items))

ListXml(tag, v) ==
    << <<"open", tag>> >> \o ItemsXml(v.items) \o << <<"close", tag>> >>

\* The chunks between the root element's tags, all of them without a root.
Inside(q, root_tag) == IF root_tag = None THEN q ELSE SubSeq(q, 2, Len(q) - 1)

\* C18: a list field is rendered as an element named after the field, also
\* when the list is empty and whatever the class of the record, around its
\* items in list order, each by its custom renderer or else inside an
\* element named after its lower-cased class.
C18_ListWrapping ==
    (XmlDone /\ call.res.err = NoError) =>
        LET dc == call.arg.dc
            body == Inside(call.res.out, call.arg.root_tag)
            first == ListXml(dc.slots[1], dc.val[1])
            last == ListXml(dc.slots[2], dc.val[2])
        IN /\ dc.val[1].k = "list" =>
                /\ Len(body) >= Len(first)
                /\ SubSeq(body, 1, Len(first)) = first
           /\ dc.val[2].k = "list" =>
                /\ Len(body) >= Len(last)
                /\ SubSeq(body, Len(body) - Len(last) + 1, Len(body)) = last

\* A skip-empty record with an empty list and a list of a record and a
\* custom-rendered item has been rendered.
C18_Witness ==
    /\ XmlDone
    /\ call.arg.dc.cls = "Position"
    /\ call.arg.root_tag = None
    /\ call.arg.dc.val = <<List(<<>>),
                           List(<<Record("Year", <<"c">>, <<Str("x")>>), PersonMonth2024>>)>>
    /\ call.res.out = << <<"open", "a">>, <<"close", "a">>, <<"open", "b">>,
                         <<"open", "year">>, <<"text", "c", "x">>, <<"close", "year">>,
                         <<"personmonth", "2024", "2.0">>, <<"close", "b">> >>

\* The exception handling the value raises: reading an unset slot, calling
\* a failing custom renderer, converting a bad value to text.
FailureOf(v) ==
    CASE v = UnsetSlot -> "AttributeError"
      [] v = BadValue -> "RuntimeError"
      [] v.k = "custom" /\ v.fails -> "KeyError"
      [] OTHER -> "none"

\* The records of the tree under v.
RECURSIVE RecordsIn(_)
RecordsIn(v) ==
    IF v.k = "rec"
    THEN {v} \cup UNION { RecordsIn(v.val[i]) : i \in DOMAIN v.val }
    ELSE IF v.k = "list"
    THEN UNION { RecordsIn(v.items[i]) : i \in DOMAIN v.items }
    ELSE {}

\* The error names the field i of the record r, its value and its failure.
NamesField(err, r, i) ==
    /\ FailureOf(r.val[i]) # "none"
    /\ err.tag = r.slots[i]
    /\ err.owner = r.cls
    /\ err.value = IF r.val[i] = UnsetSlot THEN Unbound ELSE r.val[i]
    /\ err.cause = FailureOf(r.val[i])

\* C19: a failure while one field is handled reaches the caller as an
\* XMLGenerationError that names the field, the class of the record owning
\* it and the value of that field, with the original exception as its
\* cause; the error of a nested record arrives unchanged.
C19_ErrorContext ==
    XmlDone =>
        LET failing == \E r \in RecordsIn(call.arg.dc) : \E i \in DOMAIN r.val :
                          FailureOf(r.val[i]) # "none"
        IN /\ failing <=> call.res.err # NoError
           /\ call.res.err # NoError =>
                /\ call.res.err.type = "XMLGenerationError"
                /\ \E r \in RecordsIn(call.arg.dc) : \E i \in DOMAIN r.val :
                      NamesField(call.res.err, r, i)

\* Reading the first field failed and the caller got an UnboundLocalError.
C19_Witness ==
    /\ XmlDone
    /\ call.arg.dc.val[1] = UnsetSlot
    /\ call.res.err.type = "UnboundLocalError"

(***************************************************************************)
(* parse_docx on longer streams over few blocks: a record, a commitment    *)
(* table and a later paragraph that finalizes the record.                  *)
(***************************************************************************)
MaxStream == 3

StreamBlocks ==
    { [kind |-> "paragraph", text |-> p, rows |-> NoRows] :
        p \in { <<>>, <<NameLabel, "a">>, <<"PENDING">>,
                <<LabelToken.project_title, "a">>, <<"a">> } }
    \cup { [kind |-> "table", text |-> <<>>, rows |-> t] : t \in Tables }

\* for block in iter_block_items(doc): the stream yields one more block.
NextStreamBlock ==
    /\ pc = "next"
    /\ nblocks < MaxStream
    /\ \E b \in StreamBlocks : block' = b
    /\ nblocks' = nblocks + 1
    /\ prev' = State
    /\ pc' = "body"
    /\ UNCHANGED <<name_parts, parsed_supports, current_section, builder,
                   builder_active, last_field_key, platform, call, history>>

NextStream ==
    \/ NextStreamBlock
    \/ EmptyParagraph
    \/ NameParagraph
    \/ SectionHeader
    \/ ProjectParagraph
    \/ FieldParagraph
    \/ NoiseParagraph
    \/ TableBlock
    \/ TableIgnored
    \/ FinalFlush

SpecStream == Init /\ [][NextStream]_vars

\* The loop body has raised on the block just fetched.
BlockRaised == pc = "raised" /\ block.kind # "end"

\* The exception that leaves parse_docx when the loop body raises: the loop
\* has no handler, so it is the one _finalize_support raised.
ParseDocxError == FinalizeError(builder)

\* The text 'document item #i' for the block at zero-based position i.
ItemNumber(i) == <<"document item #", i>>

\* C20: a failure while a block is processed reaches the caller as a
\* DocxParsingError whose message holds 'document item #i', i the zero-based
\* position of the block, and the message of the original error; no profile
\* is returned.
C20_BlockErrorContext ==
    BlockRaised =>
        /\ ~Returned
        /\ ParseDocxError.type = "DocxParsingError"
        /\ \E i \in DOMAIN ParseDocxError.message :
              ParseDocxError.message[i] = ItemNumber(nblocks - 1)
        /\ Mentions(ParseDocxError.message, FinalizeError(builder).message)

\* The third block made the loop finalize a record whose effort is no number.
C20_Witness ==
    /\ BlockRaised
    /\ nblocks = 3
    /\ block.kind = "paragraph"
    /\ ParseDocxError.type = "ValueError"
    /\ parsed_supports = <<>>

(***************************************************************************)
(* SciENcvProfile.xml_file_name on its own: file names derived for one     *)
(* profile while the clock of the session advances.  An instant is a       *)
(* second of the day and a microsecond within it.                          *)
(***************************************************************************)
MaxSecond == 1

MaxMicro == 1

MaxFiles == 2

Instants == [second : 0..MaxSecond, microsecond : 0..MaxMicro]

Before(t, u) ==
    \/ t.second < u.second
    \/ t.second = u.second /\ t.microsecond < u.microsecond

\* datetime.now().isoformat(): date, "T", time of day and, unless the
\* microsecond is 0, "." and the microsecond.
isoformat(now) ==
    [date |-> "2026-11-01", time |-> now.second, fraction |-> now.microsecond]

\* "_".join(part.split(".")[0].replace(":", "-") for part in
\* isoformat.split("T")): the date and the time of day without the fraction.
Timestamp(now) == <<isoformat(now).date, isoformat(now).time>>

\* The name part of the file name.
FileNameOf(first_name, last_name) ==
    IF first_name # "" /\ last_name # "" THEN <<last_name, "_", first_name>>
    ELSE IF first_name # "" /\ last_name = "" THEN <<first_name>>
    ELSE <<"no_name_found">>

\* return name + "_" + timestamp + ".xml"
xml_file_name(first_name, last_name, now) ==
    [name |-> FileNameOf(first_name, last_name), timestamp |-> Timestamp(now),
     ext |-> ".xml"]

InitFile ==
    /\ InitParse
    /\ platform = "glibc"
    /\ call \in { [fn |-> "xml_file_name",
                    arg |-> [firstname |-> f, lastname |-> l, now |-> t],
                    res |-> <<>>, done |-> FALSE] :
                     f \in {"", "Jane"}, l \in {"", "Doe"}, t \in Instants }

\* Time passes between two uses of the property.
ClockAdvances ==
    /\ call.fn = "xml_file_name"
    /\ \E t \in Instants :
          /\ Before(call.arg.now, t)
          /\ call' = [call EXCEPT !.arg.now = t]
    /\ UNCHANGED <<name_parts, parsed_supports, current_section, builder,
                   builder_active, last_field_key, pc, nblocks, block, prev,
                   platform, history>>

\* profile.xml_file_name is read at the current instant.
CallXmlFileName ==
    /\ call.fn = "xml_file_name"
    /\ Len(call.res) < MaxFiles
    /\ call' = [call EXCEPT
                  !.res = Append(@, [now |-> call.arg.now,
                                     file |-> xml_file_name(call.arg.firstname,
                                                            call.arg.lastname,
                                                            call.arg.now)]),
                  !.done = TRUE]
    /\ UNCHANGED <<name_parts, parsed_supports, current_section, builder,
                   builder_active, last_field_key, pc, nblocks, block, prev,
                   platform, history>>

NextFile == ClockAdvances \/ CallXmlFileName

SpecFile == InitFile /\ [][NextFile]_vars

FileDone == call.fn = "xml_file_name" /\ call.done

\* C21: the file name is lastname_firstname_timestamp.xml with both names,
\* firstname_timestamp.xml with the first name only and
\* no_name_found_timestamp.xml with neither, and two file names derived for
\* the same name at two different instants are different.
C21_FileNameUnique ==
    FileDone =>
        /\ \A i \in DOMAIN call.res :
              /\ call.res[i].file.ext = ".xml"
              /\ (call.arg.firstname # "" /\ call.arg.lastname # "") =>
                    call.res[i].file.name = <<call.arg.lastname, "_", call.arg.firstname>>
              /\ (call.arg.firstname # "" /\ call.arg.lastname = "") =>
                    call.res[i].file.name = <<call.arg.firstname>>
              /\ (call.arg.firstname = "" /\ call.arg.lastname = "") =>
                    call.res[i].file.name = <<"no_name_found">>
        /\ \A i, j \in DOMAIN call.res :
              call.res[i].now # call.res[j].now =>
                call.res[i].file # call.res[j].file

\* Two file names were derived at two instants of the same second and are
\* the same.
C21_Witness ==
    /\ FileDone
    /\ Len(call.res) = 2
    /\ call.res[1].now.second = call.res[2].now.second
    /\ call.res[1].now.microsecond # call.res[2].now.microsecond
    /\ call.res[1].file = call.res[2].file

(***************************************************************************)
(* _process_paragraph on paragraphs in which the dates pattern              *)
(* Project.*?Date.*?: can start at the label "Project Number:".            *)
(***************************************************************************)
MaxLabelLen == 3

SpanTokens ==
    { LabelToken.project_number, LabelToken.major_goals, LabelToken.dates, "y" }

SpanTexts == SeqsUpTo(SpanTokens, MaxLabelLen) \ {<<>>}

InitSpan ==
    /\ InitParse
    /\ platform = "glibc"
    /\ call \in { [fn |-> "_process_paragraph",
                    arg |-> [text |-> t, builder |-> _reset_builder("ACTIVE"),
                             key |-> None],
                    res |-> <<>>, done |-> FALSE] : t \in SpanTexts }

SpecSpan == InitSpan /\ [][NextPara]_vars

\* C22: the label matches of a paragraph are processed in increasing start
\* offset and do not overlap, and the field of each matched label receives
\* the text between the end of its match and the start of the next one: no
\* label loses its value to another label's match that covers it.
C22_LabelSpans ==
    ParagraphDone =>
        LET matches == FindMatches(call.arg.text)
        IN /\ \A i \in 1..(Len(matches) - 1) :
                 /\ matches[i].start <= matches[i + 1].start
                 /\ matches[i].end <= matches[i + 1].start
           /\ \A i \in DOMAIN call.arg.text :
                 LastValued(call.arg.text, i) =>
                     call.res.builder[FieldOf(KeyOfLabel(call.arg.text[i]))]
                         = ValueAt(call.arg.text, i)

\* 'Project Number: y Project Start and End Date:' has left the award
\* number as it was.
C22_Witness ==
    /\ ParagraphDone
    /\ call.arg.text = <<LabelToken.project_number, "y", LabelToken.dates>>
    /\ call.res.builder.awardnumber = call.arg.builder.awardnumber
    /\ call.res.builder.awardnumber # <<"y">>

(***************************************************************************)
(* Properties of parse_docx over streams of three blocks                   *)
(***************************************************************************)
\* Emitted records plus the active one, in a state of the parsing loop.
RecordsSoFar(st) == Len(st.parsed_supports) + IF st.builder_active THEN 1 ELSE 0

\* C23: after every prefix of the stream, the emitted records plus the
\* active one are as many as the title paragraphs that started a record; a
\* record is emitted once, when the next header or title paragraph ends it,
\* behind the records emitted before.
C23_RecordCount ==
    pc = "next" =>
        /\ RecordsSoFar(State) = Len(record_keywords)
        /\ nblocks = 0 => RecordsSoFar(State) = 0
        /\ Processed =>
              /\ RecordsSoFar(State) =
                    RecordsSoFar(prev) + IF ProcessedTitle THEN 1 ELSE 0
              /\ \/ parsed_supports = prev.parsed_supports
                 \/ /\ prev.builder_active
                    /\ ProcessedTitle \/ ProcessedHeader
                    /\ parsed_supports =
                          Append(prev.parsed_supports, _finalize_support(prev.builder))
              /\ (builder_active /\ ~ProcessedTitle) =>
                    /\ prev.builder_active
                    /\ parsed_supports = prev.parsed_supports

\* Three title paragraphs have been processed: two records are emitted, in
\* their order, and the third is active.
C23_Witness ==
    /\ ProcessedTitle
    /\ nblocks = 3
    /\ Len(parsed_supports) = 2
    /\ Len(prev.parsed_supports) = 1
    /\ builder_active

(***************************************************************************)
(* Name paragraphs after an earlier name paragraph                         *)
(***************************************************************************)
\* C24: after a name paragraph the name parts are the decomposition of that
\* paragraph alone, whatever an earlier name paragraph has left in them: no
\* earlier part, a middle name for instance, survives.
C24_LastNameParagraphWins ==
    NameDone =>
        call.res.name_parts =
            _parse_name(call.arg.text,
                        [firstname |-> <<>>, middlename |-> <<>>, lastname |-> <<>>])

\* 'Jane Doe' after 'Old M Name' has left the middle name M in place.
C24_Witness ==
    /\ NameDone
    /\ call.arg.name_parts.middlename = <<<<"M">>>>
    /\ CapturedName = <<"Jane", "Doe">>
    /\ call.res.name_parts.firstname = <<<<"Jane">>>>
    /\ call.res.name_parts.middlename = <<<<"M">>>>

(***************************************************************************)
(* _process_paragraph on continuation text after a label that takes none   *)
(***************************************************************************)
MaxContLen == 2

ContTokens ==
    { LabelToken.person_months_stopper, LabelToken.dates, LabelToken.overlap,
      "1/2/2024-3/2025", "y" }

ContTexts == SeqsUpTo(ContTokens, MaxContLen) \ {<<>>}

\* The keys whose label takes no appended text, and one that does.
NoAppendKeys == {"dates", "status", "role", "pd_pi", "person_months_stopper"}

InitCont ==
    /\ InitParse
    /\ platform = "glibc"
    /\ call \in { [fn |-> "_process_paragraph",
                    arg |-> [text |-> t, builder |-> b, key |-> k],
                    res |-> <<>>, done |-> FALSE] :
                     t \in ContTexts, b \in ParaBuilders,
                     k \in NoAppendKeys \cup {"overlap"} }

SpecCont == InitCont /\ [][NextPara]_vars

\* The values the labels of a text field have in the text.
ValuesFor(text, field_name) ==
    { ValueAt(text, i) : i \in { j \in DOMAIN text :
                                   /\ IsLabel(text[j])
                                   /\ FieldOf(KeyOfLabel(text[j])) = field_name } }

\* C25: after a label that takes no appended text (dates, status, role,
\* PD/PI, person months) continuation text changes no field of the builder,
\* be it a paragraph without labels or the text before the first label of
\* the next paragraph; the dates are set only from the text directly after
\* a dates label, and the text after "Person Months" reaches no field.
C25_NoAppendLabels ==
    ParagraphDone =>
        LET text == call.arg.text
            b == call.arg.builder
            matches == FindMatches(text)
        IN /\ call.arg.key \in NoAppendKeys =>
                /\ matches = <<>> => call.res.builder = b
                /\ matches # <<>> =>
                     call.res.builder =
                       ApplyMatches(matches, 1, text, b, platform)
                /\ \A f \in TextFieldNames :
                     call.res.builder[f] \in {b[f]} \cup ValuesFor(text, f)
           /\ ( \/ call.res.builder.startdate # b.startdate
                \/ call.res.builder.enddate # b.enddate ) =>
                \E i \in DOMAIN matches :
                    /\ matches[i].raw_key = "dates"
                    /\ <<call.res.builder.startdate, call.res.builder.enddate>> =
                         extract_dates(
                           strip(Slice(text, matches[i].end,
                                       IF i < Len(matches) THEN matches[i + 1].start
                                       ELSE Len(text)), {" ", "*", "_"}),
                           platform)

\* A date range without a label follows a dates label: the dates stay.
C25_Witness ==
    /\ ParagraphDone
    /\ call.arg.key = "dates"
    /\ call.arg.text = <<"1/2/2024-3/2025", "y">>
    /\ call.res.builder = call.arg.builder
    /\ call.res.key = "dates"

====
